---- MODULE Spec2Model ----
(***************************************************************************)
(* Model of src/components/IntelligenceDesignStudio.tsx: the design-studio *)
(* wizard (stage, params, the activeEngines / enginesByPhase memos) and    *)
(* the Inquire chat panel (transcript, processing status, requests that    *)
(* await orchestrateAgentResponse).                                        *)
(*                                                                         *)
(* JavaScript values: an optional value (x | undefined) is the record      *)
(* None or Some(v); an array is a sequence; a string is a string.          *)
(***************************************************************************)
EXTENDS FiniteSets, Integers, Sequences, TLC

VARIABLES stage, params, activeEngines, enginesByPhase,
          mounted, messages, inputText, activeAgent, agentStatus,
          inflight, submitted, dropped,
          isAnalyzingThought, refining, refinements

studioVars == <<stage, params, activeEngines, enginesByPhase>>
chatVars == <<mounted, messages, inputText, activeAgent, agentStatus,
              inflight, submitted, dropped>>
refineVars == <<isAnalyzingThought, refining, refinements>>
vars == <<stage, params, activeEngines, enginesByPhase,
          mounted, messages, inputText, activeAgent, agentStatus,
          inflight, submitted, dropped,
          isAnalyzingThought, refining, refinements>>

----------------------------------------------------------------------------
(* Bounds *)

\* longest selectedIntents list the parent hands over at construction
MaxInitLen == 2
\* chat submissions accepted in one run
MaxSubmissions == 2
\* refinement requests started in one run
MaxRefinements == 2

----------------------------------------------------------------------------
(* JavaScript helpers *)

None == [defined |-> FALSE]
Some(v) == [defined |-> TRUE, val |-> v]

\* (x || [])
OrEmpty(x) == IF x.defined THEN x.val ELSE <<>>

Range(s) == {s[i] : i \in 1..Len(s)}

\* Array.prototype.includes
ArrIncludes(s, x) == \E i \in 1..Len(s) : s[i] = x

\* Array.prototype.filter(id => id !== x)
RECURSIVE FilterOut(_, _)
FilterOut(s, x) ==
    IF Len(s) = 0 THEN <<>>
    ELSE IF s[1] # x THEN <<s[1]>> \o FilterOut(Tail(s), x)
         ELSE FilterOut(Tail(s), x)

\* variant: a plain array push, without the Set's membership test
SetAdd_Push(set, x) == Append(set, x)

\* Set.prototype.add on an insertion-ordered Set, kept as the sequence that
\* Array.from(set) yields
SetAdd(set, x) == IF ArrIncludes(set, x) THEN set ELSE Append(set, x)

RECURSIVE SetAddAll(_, _)
SetAddAll(set, xs) ==
    IF Len(xs) = 0 THEN set ELSE SetAddAll(SetAdd(set, xs[1]), Tail(xs))

----------------------------------------------------------------------------
(* Static catalogs *)

MODULE_PHASES ==
    [m \in {"geopolitics", "rroi", "comfort_index", "math_models", "rocket_engine"}
        |-> "Macro"]
    @@ [m \in {"governance_audit", "due_diligence"} |-> "Integrity"]
    @@ [m \in {"symbiotic_matchmaking", "matchmaking_engine", "seam", "partner_intel",
               "deep_reasoning", "trade_disruption", "predictive_growth",
               "alternative_locations"} |-> "Expansion"]
    @@ [m \in {"cultural_intel", "negotiation_advantage", "stakeholder_analysis",
               "relationship_builder", "final_review"} |-> "Execution"]

PHASES == <<"Macro", "Integrity", "Expansion", "Execution">>

\* The intent catalog of ../constants: id and recommendedModules of each entry.
\* Its entries overlap (due_diligence, rroi), recommend baseline modules
\* (geopolitics, final_review) and name one module MODULE_PHASES does not list.
STRATEGIC_INTENTS ==
    << [id |-> "market_entry", title |-> "Market Entry",
        recommendedModules |-> <<"geopolitics", "rroi", "due_diligence">>],
       [id |-> "partnership", title |-> "Partnership",
        recommendedModules |-> <<"symbiotic_matchmaking", "due_diligence",
                                 "negotiation_advantage">>],
       [id |-> "risk_audit", title |-> "Risk Audit",
        recommendedModules |-> <<"governance_audit", "final_review", "rroi",
                                 "sanctions_screen">>] >>

CatalogIds == {STRATEGIC_INTENTS[i].id : i \in 1..Len(STRATEGIC_INTENTS)}

\* an intent id the catalog does not hold
UnknownIntent == "legacy_intent"

IntentIds == CatalogIds \cup {UnknownIntent}

\* STRATEGIC_INTENTS.find(i => i.id === id)
Find(id) ==
    IF \E i \in 1..Len(STRATEGIC_INTENTS) : STRATEGIC_INTENTS[i].id = id
    THEN LET k == CHOOSE i \in 1..Len(STRATEGIC_INTENTS) :
                      /\ STRATEGIC_INTENTS[i].id = id
                      /\ \A j \in 1..(i - 1) : STRATEGIC_INTENTS[j].id # id
         IN Some(STRATEGIC_INTENTS[k])
    ELSE None

----------------------------------------------------------------------------
(* Composition resolver: the two useMemo computations *)

\* variant: the walk over the selected ids ends at the first unknown id
RECURSIVE AddIntents_StopAtUnknown(_, _)
AddIntents_StopAtUnknown(moduleSet, selectedIds) ==
    IF Len(selectedIds) = 0 THEN moduleSet
    ELSE LET intent == Find(selectedIds[1])
         IN IF intent.defined
            THEN AddIntents_StopAtUnknown(
                     SetAddAll(moduleSet, intent.val.recommendedModules),
                     Tail(selectedIds))
            ELSE moduleSet

\* variant: the module set is rebuilt for every intent, so only the last
\* selected intent contributes
AddIntents_Reset(moduleSet, selectedIds) ==
    IF Len(selectedIds) = 0 THEN moduleSet
    ELSE LET intent == Find(selectedIds[Len(selectedIds)])
         IN IF intent.defined
            THEN SetAddAll(<<"geopolitics", "final_review">>,
                           intent.val.recommendedModules)
            ELSE moduleSet

\* variant: only the primary (first) selected intent contributes
AddIntents_PrimaryOnly(moduleSet, selectedIds) ==
    IF Len(selectedIds) = 0 THEN moduleSet
    ELSE LET intent == Find(selectedIds[1])
         IN IF intent.defined
            THEN SetAddAll(moduleSet, intent.val.recommendedModules)
            ELSE moduleSet

\* selectedIds.forEach(id => { const intent = find(id); if (intent) ... })
RECURSIVE AddIntents(_, _)
AddIntents(moduleSet, selectedIds) ==
    IF Len(selectedIds) = 0 THEN moduleSet
    ELSE LET intent == Find(selectedIds[1])
         IN AddIntents(IF intent.defined
                       THEN SetAddAll(moduleSet, intent.val.recommendedModules)
                       ELSE moduleSet,
                       Tail(selectedIds))

\* variant: the second baseline module is not seeded
ActiveEnginesOf_OneCore(selectedIntents) ==
    AddIntents(SetAdd(<<>>, "geopolitics"), OrEmpty(selectedIntents))

ActiveEnginesOf(selectedIntents) ==
    AddIntents(SetAdd(SetAdd(<<>>, "geopolitics"), "final_review"),
               OrEmpty(selectedIntents))

\* variant: the lookup key never matches, every module falls back
PhaseOf_AlwaysFallback(engineId) == "Execution"

\* variant: no fallback, an unlisted module gets the phase undefined
PhaseOf_NoFallback(engineId) ==
    IF engineId \in DOMAIN MODULE_PHASES THEN MODULE_PHASES[engineId]
    ELSE "undefined"

\* MODULE_PHASES[engineId] || 'Execution'
PhaseOf(engineId) ==
    IF engineId \in DOMAIN MODULE_PHASES THEN MODULE_PHASES[engineId]
    ELSE "Execution"

\* variant: the groups object misses one phase key
EmptyGroups_NoIntegrity == [ph \in {"Macro", "Expansion", "Execution"} |-> <<>>]

EmptyGroups == [ph \in Range(PHASES) |-> <<>>]

RECURSIVE GroupEngines(_, _)
GroupEngines(groups, engines) ==
    IF Len(engines) = 0 THEN groups
    ELSE LET phase == PhaseOf(engines[1])
         IN GroupEngines(IF phase \in DOMAIN groups
                         THEN [groups EXCEPT ![phase] = Append(@, engines[1])]
                         ELSE groups,
                         Tail(engines))

EnginesByPhaseOf(engines) == GroupEngines(EmptyGroups, engines)

----------------------------------------------------------------------------
(* Design studio: state after construction *)

RECURSIVE SeqsUpTo(_, _)
SeqsUpTo(S, n) ==
    IF n = 0 THEN {<<>>}
    ELSE LET shorter == SeqsUpTo(S, n - 1)
         IN shorter \cup {Append(q, x) : q \in shorter, x \in S}

\* the selectedIntents the parent may hand over: undefined, or any short list
\* of intent ids, known or not
InitialSelections == {None} \cup {Some(q) : q \in SeqsUpTo(IntentIds, MaxInitLen)}

\* what the user can leave in an identity text field
FieldValues == {"", "Acme"}

\* the two memos, recomputed by the render that follows a params change
Rendered(p) ==
    /\ activeEngines' = ActiveEnginesOf(p.selectedIntents)
    /\ enginesByPhase' = EnginesByPhaseOf(ActiveEnginesOf(p.selectedIntents))

StudioInit ==
    /\ stage = "identity"
    /\ \E sel \in InitialSelections :
         params = [selectedIntents |-> sel,
                   selectedIntent |-> None,
                   organizationType |-> "",
                   userCountry |-> "",
                   userName |-> "",
                   initialThought |-> "",
                   problemStatement |-> ""]
    /\ activeEngines = ActiveEnginesOf(params.selectedIntents)
    /\ enginesByPhase = EnginesByPhaseOf(activeEngines)

\* the Inquire panel is not rendered before the canvas stage
ChatUnmounted ==
    /\ mounted = FALSE
    /\ messages = <<>>
    /\ inputText = ""
    /\ activeAgent = None
    /\ agentStatus = ""
    /\ inflight = <<>>
    /\ submitted = 0
    /\ dropped = 0

\* no refinement request has been made
RefineIdle ==
    /\ isAnalyzingThought = FALSE
    /\ refining = <<>>
    /\ refinements = 0

Init == StudioInit /\ ChatUnmounted /\ RefineIdle

----------------------------------------------------------------------------
(* Design studio: handlers *)

\* the parent's onParamsChange stores the params it is given; the studio
\* re-renders with them
OnParamsChange(p) ==
    /\ params' = p
    /\ Rendered(p)

\* onChange of the userName input
SetUserName(v) ==
    /\ stage = "identity"
    /\ OnParamsChange([params EXCEPT !.userName = v])
    /\ UNCHANGED <<stage, mounted, messages, inputText, activeAgent, agentStatus,
                   inflight, submitted, dropped>>
    /\ UNCHANGED refineVars

\* onChange of the organizationType select
SetOrganizationType(v) ==
    /\ stage = "identity"
    /\ OnParamsChange([params EXCEPT !.organizationType = v])
    /\ UNCHANGED <<stage, mounted, messages, inputText, activeAgent, agentStatus,
                   inflight, submitted, dropped>>
    /\ UNCHANGED refineVars

\* onChange of the userCountry select
SetUserCountry(v) ==
    /\ stage = "identity"
    /\ OnParamsChange([params EXCEPT !.userCountry = v])
    /\ UNCHANGED <<stage, mounted, messages, inputText, activeAgent, agentStatus,
                   inflight, submitted, dropped>>
    /\ UNCHANGED refineVars

\* "Confirm Identity & Proceed", disabled while a required field is empty
handleIdentityComplete ==
    /\ stage = "identity"
    /\ params.organizationType # ""
    /\ params.userCountry # ""
    /\ params.userName # ""
    /\ stage' = "intent"
    /\ UNCHANGED <<params, activeEngines, enginesByPhase, mounted, messages,
                   inputText, activeAgent, agentStatus, inflight, submitted, dropped>>
    /\ UNCHANGED refineVars

\* "Back to Identity"
BackToIdentity ==
    /\ stage = "intent"
    /\ stage' = "identity"
    /\ UNCHANGED <<params, activeEngines, enginesByPhase, mounted, messages,
                   inputText, activeAgent, agentStatus, inflight, submitted, dropped>>
    /\ UNCHANGED refineVars

\* variant: the clicked id is always appended
NewIntents_PushOnly(currentIntents, intentId) == Append(currentIntents, intentId)

NewIntents(currentIntents, intentId) ==
    IF ArrIncludes(currentIntents, intentId)
    THEN FilterOut(currentIntents, intentId)
    ELSE Append(currentIntents, intentId)

\* variant: the clicked id becomes the primary intent
toggleIntent_ClickedPrimary(intentId) ==
    /\ stage = "intent"
    /\ LET newIntents == NewIntents(OrEmpty(params.selectedIntents), intentId)
       IN OnParamsChange([params EXCEPT
              !.selectedIntents = Some(newIntents),
              !.selectedIntent = Some(intentId)])
    /\ UNCHANGED <<stage, mounted, messages, inputText, activeAgent, agentStatus,
                   inflight, submitted, dropped>>
    /\ UNCHANGED refineVars

\* click on the card of a catalog intent
toggleIntent(intentId) ==
    /\ stage = "intent"
    /\ LET newIntents == NewIntents(OrEmpty(params.selectedIntents), intentId)
       IN OnParamsChange([params EXCEPT
              !.selectedIntents = Some(newIntents),
              !.selectedIntent = IF Len(newIntents) > 0 THEN Some(newIntents[1])
                                 ELSE None])
    /\ UNCHANGED <<stage, mounted, messages, inputText, activeAgent, agentStatus,
                   inflight, submitted, dropped>>
    /\ UNCHANGED refineVars

\* Array.prototype.join(' + ') over the titles found; undefined joins as ''
RECURSIVE JoinTitles(_)
JoinTitles(ids) ==
    IF Len(ids) = 0 THEN ""
    ELSE LET intent == Find(ids[1])
             title == IF intent.defined THEN intent.val.title ELSE ""
         IN IF Len(ids) = 1 THEN title
            ELSE title \o " + " \o JoinTitles(Tail(ids))

\* variant: the button is never disabled
hasSelected_Always == TRUE

hasSelected == Len(OrEmpty(params.selectedIntents)) > 0

\* first render and mount effect of the Inquire panel
InquireMount ==
    /\ mounted' = TRUE
    /\ messages' = << [sender |-> "ai",
                       text |-> "Nexus Intelligence System Online. Active Agents: Scout, Strategist, Diplomat. Awaiting directives.",
                       agent |-> None,
                       sources |-> None] >>
    /\ inputText' = ""
    /\ activeAgent' = None
    /\ agentStatus' = ""

\* variant: the requests awaited by the panel stay bound to the tree
InquireUnmount_KeepLive ==
    /\ mounted' = FALSE
    /\ messages' = <<>>
    /\ inputText' = ""
    /\ activeAgent' = None
    /\ agentStatus' = ""
    /\ inflight' = inflight

\* the Inquire panel leaves the tree: its state is discarded, and the
\* requests it still awaits belong to no mounted component
InquireUnmount ==
    /\ mounted' = FALSE
    /\ messages' = <<>>
    /\ inputText' = ""
    /\ activeAgent' = None
    /\ agentStatus' = ""
    /\ inflight' = [i \in 1..Len(inflight) |-> [inflight[i] EXCEPT !.live = FALSE]]

\* "Initialize Strategic Canvas", disabled while nothing is selected
handleProceedToCanvas ==
    /\ stage = "intent"
    /\ hasSelected
    /\ IF params.problemStatement = "" /\ params.selectedIntents.defined
          /\ Len(params.selectedIntents.val) > 0
       THEN OnParamsChange([params EXCEPT !.problemStatement =
                "Strategic Mission: " \o JoinTitles(params.selectedIntents.val)])
       ELSE UNCHANGED <<params, activeEngines, enginesByPhase>>
    /\ stage' = "canvas"
    /\ InquireMount
    /\ UNCHANGED <<inflight, submitted, dropped>>
    /\ UNCHANGED refineVars

\* onBack of the canvas stage
onBack ==
    /\ stage = "canvas"
    /\ stage' = "intent"
    /\ InquireUnmount
    /\ UNCHANGED <<params, activeEngines, enginesByPhase, submitted, dropped>>
    /\ UNCHANGED refineVars

Next ==
    \/ \E v \in FieldValues : SetUserName(v)
    \/ \E v \in FieldValues : SetOrganizationType(v)
    \/ \E v \in FieldValues : SetUserCountry(v)
    \/ handleIdentityComplete
    \/ BackToIdentity
    \/ \E id \in CatalogIds : toggleIntent(id)
    \/ handleProceedToCanvas
    \/ onBack

Spec == Init /\ [][Next]_vars

----------------------------------------------------------------------------
(* Design studio: refinement of the initial thought *)

\* what the user can leave in the initial-thought textarea
ThoughtValues == {"", "Enter ASEAN"}

\* what generateFastSuggestion may resolve with
RefinedTexts == {"Establish a market presence in ASEAN."}

chatFrame == <<mounted, messages, inputText, activeAgent, agentStatus, inflight,
               submitted, dropped>>

\* onChange of the initial-thought textarea
SetInitialThought(v) ==
    /\ stage = "identity"
    /\ OnParamsChange([params EXCEPT !.initialThought = v])
    /\ UNCHANGED stage
    /\ UNCHANGED chatFrame
    /\ UNCHANGED refineVars

\* variant: the refine control is not disabled while a refinement is running
handleInitialThoughtAnalysis_NoDisable ==
    /\ stage = "identity"
    /\ params.initialThought # ""
    /\ refinements < MaxRefinements
    /\ isAnalyzingThought' = TRUE
    /\ refining' = Append(refining, [params |-> params])
    /\ refinements' = refinements + 1
    /\ UNCHANGED <<stage, params, activeEngines, enginesByPhase>>
    /\ UNCHANGED chatFrame

\* "Refine Request with AI", disabled while the thought is empty or a
\* refinement is running: the handler up to the await, which keeps the params
\* of the render it was created in
handleInitialThoughtAnalysis ==
    /\ stage = "identity"
    /\ ~(params.initialThought = "" \/ isAnalyzingThought)
    /\ refinements < MaxRefinements
    /\ IF params.initialThought = ""
       THEN UNCHANGED refineVars
       ELSE /\ isAnalyzingThought' = TRUE
            /\ refining' = Append(refining, [params |-> params])
            /\ refinements' = refinements + 1
    /\ UNCHANGED <<stage, params, activeEngines, enginesByPhase>>
    /\ UNCHANGED chatFrame

\* generateFastSuggestion resolves: rest of the try body, then finally
RefineResolve(i, refined) ==
    /\ i \in 1..Len(refining)
    /\ OnParamsChange([refining[i].params EXCEPT !.problemStatement = refined])
    /\ isAnalyzingThought' = FALSE
    /\ refining' = SubSeq(refining, 1, i - 1) \o SubSeq(refining, i + 1, Len(refining))
    /\ UNCHANGED <<stage, refinements>>
    /\ UNCHANGED chatFrame

\* variant: the flag is reset at the end of the try body only
RefineReject_NoFinally(i) ==
    /\ i \in 1..Len(refining)
    /\ isAnalyzingThought' = isAnalyzingThought
    /\ refining' = SubSeq(refining, 1, i - 1) \o SubSeq(refining, i + 1, Len(refining))
    /\ UNCHANGED <<stage, params, activeEngines, enginesByPhase, refinements>>
    /\ UNCHANGED chatFrame

\* generateFastSuggestion rejects: catch (console.error), then finally
RefineReject(i) ==
    /\ i \in 1..Len(refining)
    /\ isAnalyzingThought' = FALSE
    /\ refining' = SubSeq(refining, 1, i - 1) \o SubSeq(refining, i + 1, Len(refining))
    /\ UNCHANGED <<stage, params, activeEngines, enginesByPhase, refinements>>
    /\ UNCHANGED chatFrame

\* the studio on its identity stage, organisation and country chosen
RefineInit ==
    /\ stage = "identity"
    /\ params = [selectedIntents |-> None,
                 selectedIntent |-> None,
                 organizationType |-> "Acme",
                 userCountry |-> "Acme",
                 userName |-> "",
                 initialThought |-> "",
                 problemStatement |-> ""]
    /\ activeEngines = ActiveEnginesOf(params.selectedIntents)
    /\ enginesByPhase = EnginesByPhaseOf(activeEngines)
    /\ ChatUnmounted
    /\ RefineIdle

RefineNext ==
    \/ \E v \in FieldValues : SetUserName(v)
    \/ \E v \in ThoughtValues : SetInitialThought(v)
    \/ handleIdentityComplete
    \/ BackToIdentity
    \/ \E id \in CatalogIds : toggleIntent(id)
    \/ handleInitialThoughtAnalysis
    \/ \E i \in 1..Len(refining), refined \in RefinedTexts : RefineResolve(i, refined)
    \/ \E i \in 1..Len(refining) : RefineReject(i)

RefineSpec == RefineInit /\ [][RefineNext]_vars

\* generateFastSuggestion answers: the pending call resolves or rejects
RefineCompletion ==
    \E i \in 1..Len(refining) :
        \/ RefineReject(i)
        \/ \E refined \in RefinedTexts : RefineResolve(i, refined)

\* the studio with a refinement service that eventually answers
RefineFairSpec == RefineSpec /\ WF_vars(RefineCompletion)

----------------------------------------------------------------------------
(* Inquire panel: strings *)

UpperChars == "ABCDEFGHIJKLMNOPQRSTUVWXYZ"
LowerChars == "abcdefghijklmnopqrstuvwxyz"

Ch(str, i) == SubSeq(str, i, i)

ToLowerChar(c) ==
    IF \E i \in 1..Len(UpperChars) : Ch(UpperChars, i) = c
    THEN Ch(LowerChars, CHOOSE i \in 1..Len(UpperChars) : Ch(UpperChars, i) = c)
    ELSE c

\* String.prototype.toLowerCase
RECURSIVE ToLowerCase(_)
ToLowerCase(str) ==
    IF Len(str) = 0 THEN ""
    ELSE ToLowerChar(Ch(str, 1)) \o ToLowerCase(SubSeq(str, 2, Len(str)))

\* String.prototype.includes
StrIncludes(str, key) ==
    \E i \in 1..(Len(str) - Len(key) + 1) : SubSeq(str, i, i + Len(key) - 1) = key

IsSpace(c) == c = " "

\* String.prototype.trim
RECURSIVE TrimStart(_)
TrimStart(str) ==
    IF Len(str) > 0 /\ IsSpace(Ch(str, 1)) THEN TrimStart(SubSeq(str, 2, Len(str)))
    ELSE str

RECURSIVE TrimEnd(_)
TrimEnd(str) ==
    IF Len(str) > 0 /\ IsSpace(Ch(str, Len(str)))
    THEN TrimEnd(SubSeq(str, 1, Len(str) - 1))
    ELSE str

\* variant: the guard tests the raw text
Trim_None(str) == str

Trim(str) == TrimEnd(TrimStart(str))

\* what the user can have in the chat input
Texts ==
    { "",
      "  ",
      "Find recent news on tariffs",
      "SEARCH the filings",
      "Help me negotiate this deal",
      "Negotiate, then check the News",
      "Build a market entry plan" }

AgentTypes == {"scout", "strategist", "diplomat"}

\* variant: the negotiate test comes first
Classify_DiplomatFirst(userMsg) ==
    IF StrIncludes(ToLowerCase(userMsg), "negotiate")
    THEN "diplomat"
    ELSE IF StrIncludes(ToLowerCase(userMsg), "news")
            \/ StrIncludes(ToLowerCase(userMsg), "search")
         THEN "scout"
         ELSE "strategist"

\* the if / else-if chain that picks the agent of a request
Classify(userMsg) ==
    IF StrIncludes(ToLowerCase(userMsg), "news")
       \/ StrIncludes(ToLowerCase(userMsg), "search")
    THEN "scout"
    ELSE IF StrIncludes(ToLowerCase(userMsg), "negotiate")
         THEN "diplomat"
         ELSE "strategist"

StatusOf(agent) ==
    CASE agent = "scout" -> "Scouring global databases..."
      [] agent = "diplomat" -> "Analyzing cultural nuance..."
      [] agent = "strategist" -> "Simulating strategic outcomes..."

\* what orchestrateAgentResponse may resolve with: { content, agent?, sources? }
Responses ==
    { [content |-> "Briefing ready.",
       agent |-> Some("scout"),
       sources |-> Some(<< [title |-> "Tariff tracker", uri |-> "https://example.org/t"] >>)],
      [content |-> "Briefing ready.",
       agent |-> None,
       sources |-> None] }

----------------------------------------------------------------------------
(* Inquire panel: handlers *)

\* onChange of the chat input
OnInputChange(text) ==
    /\ mounted
    /\ inputText' = text
    /\ UNCHANGED <<stage, params, activeEngines, enginesByPhase, mounted, messages,
                   activeAgent, agentStatus, inflight, submitted, dropped>>
    /\ UNCHANGED refineVars

\* handleSendMessage up to the await: guard, user message, classification,
\* call of orchestrateAgentResponse
handleSendMessage ==
    /\ mounted
    /\ submitted < MaxSubmissions
    /\ IF Trim(inputText) = ""
       THEN UNCHANGED <<messages, inputText, activeAgent, agentStatus, inflight,
                        submitted>>
       ELSE LET userMsg == inputText
                agent == Classify(userMsg)
            IN /\ messages' = Append(messages, [sender |-> "user", text |-> userMsg,
                                                agent |-> None, sources |-> None])
               /\ inputText' = ""
               /\ activeAgent' = Some(agent)
               /\ agentStatus' = StatusOf(agent)
               /\ inflight' = Append(inflight, [text |-> userMsg, agent |-> agent,
                                                live |-> TRUE])
               /\ submitted' = submitted + 1
    /\ UNCHANGED <<stage, params, activeEngines, enginesByPhase, mounted, dropped>>
    /\ UNCHANGED refineVars

RemoveAt(s, i) == SubSeq(s, 1, i - 1) \o SubSeq(s, i + 1, Len(s))

\* variant: the reply overwrites the last message of the transcript
Resolve_ReplaceLast(i, response) ==
    /\ i \in 1..Len(inflight)
    /\ IF inflight[i].live
       THEN /\ messages' = [messages EXCEPT ![Len(messages)] =
                                [sender |-> "ai",
                                 text |-> response.content,
                                 agent |-> response.agent,
                                 sources |-> response.sources]]
            /\ activeAgent' = None
            /\ agentStatus' = ""
            /\ dropped' = dropped
       ELSE /\ UNCHANGED <<messages, activeAgent, agentStatus>>
            /\ dropped' = dropped + 1
    /\ inflight' = RemoveAt(inflight, i)
    /\ UNCHANGED <<stage, params, activeEngines, enginesByPhase, mounted,
                   inputText, submitted>>
    /\ UNCHANGED refineVars

\* the await of request i resolves: try body after the await, then finally.
\* State setters of a panel that is no longer mounted change nothing.
Resolve(i, response) ==
    /\ i \in 1..Len(inflight)
    /\ IF inflight[i].live
       THEN /\ messages' = Append(messages, [sender |-> "ai",
                                             text |-> response.content,
                                             agent |-> response.agent,
                                             sources |-> response.sources])
            /\ activeAgent' = None
            /\ agentStatus' = ""
            /\ dropped' = dropped
       ELSE /\ UNCHANGED <<messages, activeAgent, agentStatus>>
            /\ dropped' = dropped + 1
    /\ inflight' = RemoveAt(inflight, i)
    /\ UNCHANGED <<stage, params, activeEngines, enginesByPhase, mounted,
                   inputText, submitted>>
    /\ UNCHANGED refineVars

\* variant: the fallback message carries the agent of the request
Reject_Tagged(i) ==
    /\ i \in 1..Len(inflight)
    /\ IF inflight[i].live
       THEN /\ messages' = Append(messages, [sender |-> "ai",
                                             text |-> "System overload. Re-routing...",
                                             agent |-> Some(inflight[i].agent),
                                             sources |-> None])
            /\ activeAgent' = None
            /\ agentStatus' = ""
            /\ dropped' = dropped
       ELSE /\ UNCHANGED <<messages, activeAgent, agentStatus>>
            /\ dropped' = dropped + 1
    /\ inflight' = RemoveAt(inflight, i)
    /\ UNCHANGED <<stage, params, activeEngines, enginesByPhase, mounted,
                   inputText, submitted>>
    /\ UNCHANGED refineVars

\* variant: the status is cleared in the try body only
Reject_NoFinally(i) ==
    /\ i \in 1..Len(inflight)
    /\ IF inflight[i].live
       THEN /\ messages' = Append(messages, [sender |-> "ai",
                                             text |-> "System overload. Re-routing...",
                                             agent |-> None,
                                             sources |-> None])
            /\ UNCHANGED <<activeAgent, agentStatus>>
            /\ dropped' = dropped
       ELSE /\ UNCHANGED <<messages, activeAgent, agentStatus>>
            /\ dropped' = dropped + 1
    /\ inflight' = RemoveAt(inflight, i)
    /\ UNCHANGED <<stage, params, activeEngines, enginesByPhase, mounted,
                   inputText, submitted>>
    /\ UNCHANGED refineVars

\* variant: the catch block calls the responder again
Reject_Retry(i) ==
    /\ i \in 1..Len(inflight)
    /\ IF inflight[i].live
       THEN /\ messages' = Append(messages, [sender |-> "ai",
                                             text |-> "System overload. Re-routing...",
                                             agent |-> None,
                                             sources |-> None])
            /\ activeAgent' = None
            /\ agentStatus' = ""
            /\ dropped' = dropped
       ELSE /\ UNCHANGED <<messages, activeAgent, agentStatus>>
            /\ dropped' = dropped + 1
    /\ inflight' = inflight
    /\ UNCHANGED <<stage, params, activeEngines, enginesByPhase, mounted,
                   inputText, submitted>>
    /\ UNCHANGED refineVars

\* variant: the catch block only logs
Reject_Silent(i) ==
    /\ i \in 1..Len(inflight)
    /\ IF inflight[i].live
       THEN /\ messages' = messages
            /\ activeAgent' = None
            /\ agentStatus' = ""
            /\ dropped' = dropped
       ELSE /\ UNCHANGED <<messages, activeAgent, agentStatus>>
            /\ dropped' = dropped + 1
    /\ inflight' = RemoveAt(inflight, i)
    /\ UNCHANGED <<stage, params, activeEngines, enginesByPhase, mounted,
                   inputText, submitted>>
    /\ UNCHANGED refineVars

\* the await of request i rejects: catch, then finally
Reject(i) ==
    /\ i \in 1..Len(inflight)
    /\ IF inflight[i].live
       THEN /\ messages' = Append(messages, [sender |-> "ai",
                                             text |-> "System overload. Re-routing...",
                                             agent |-> None,
                                             sources |-> None])
            /\ activeAgent' = None
            /\ agentStatus' = ""
            /\ dropped' = dropped
       ELSE /\ UNCHANGED <<messages, activeAgent, agentStatus>>
            /\ dropped' = dropped + 1
    /\ inflight' = RemoveAt(inflight, i)
    /\ UNCHANGED <<stage, params, activeEngines, enginesByPhase, mounted,
                   inputText, submitted>>
    /\ UNCHANGED refineVars

\* the studio on its canvas stage, the Inquire panel just mounted
ChatInit ==
    /\ stage = "canvas"
    /\ params = [selectedIntents |-> Some(<<"market_entry">>),
                 selectedIntent |-> Some("market_entry"),
                 organizationType |-> "Acme",
                 userCountry |-> "Acme",
                 userName |-> "Acme",
                 initialThought |-> "",
                 problemStatement |-> "Strategic Mission: Market Entry"]
    /\ activeEngines = ActiveEnginesOf(params.selectedIntents)
    /\ enginesByPhase = EnginesByPhaseOf(activeEngines)
    /\ mounted = TRUE
    /\ messages = << [sender |-> "ai",
                      text |-> "Nexus Intelligence System Online. Active Agents: Scout, Strategist, Diplomat. Awaiting directives.",
                      agent |-> None,
                      sources |-> None] >>
    /\ inputText = ""
    /\ activeAgent = None
    /\ agentStatus = ""
    /\ inflight = <<>>
    /\ submitted = 0
    /\ dropped = 0
    /\ RefineIdle

ChatNext ==
    \/ \E text \in Texts : OnInputChange(text)
    \/ handleSendMessage
    \/ \E i \in 1..Len(inflight), response \in Responses : Resolve(i, response)
    \/ \E i \in 1..Len(inflight) : Reject(i)
    \/ onBack
    \/ handleProceedToCanvas

ChatSpec == ChatInit /\ [][ChatNext]_vars

\* the responder answers: some awaited request resolves or rejects
Completion ==
    \E i \in 1..Len(inflight) :
        \/ Reject(i)
        \/ \E response \in Responses : Resolve(i, response)

\* the Inquire panel with a responder that eventually answers
ChatFairSpec == ChatSpec /\ WF_vars(Completion)

----------------------------------------------------------------------------
(* Composition resolver: properties (checked under Spec) *)

Baseline == {"geopolitics", "final_review"}

selectedIds == OrEmpty(params.selectedIntents)

\* recommendedModules, as a set, of the catalog entries whose id is in ids
RecommendedBy(ids) ==
    UNION { Range(STRATEGIC_INTENTS[i].recommendedModules) :
              i \in {j \in 1..Len(STRATEGIC_INTENTS) : STRATEGIC_INTENTS[j].id \in ids} }

NoDuplicates(s) == \A i, j \in 1..Len(s) : s[i] = s[j] => i = j

\* C1: whatever selectedIntents holds (undefined, empty, unknown ids, any
\* list the toggles produce), activeEngines contains geopolitics and
\* final_review.
C1_BaselineAlwaysActive ==
    /\ ArrIncludes(activeEngines, "geopolitics")
    /\ ArrIncludes(activeEngines, "final_review")

C1_Witness ==
    /\ stage = "intent"
    /\ UnknownIntent \in Range(selectedIds)
    /\ "partnership" \in Range(selectedIds)
    /\ Len(selectedIds) = 3
    /\ Baseline \subseteq Range(activeEngines)

\* C2: as a set, activeEngines is the baseline united with the
\* recommendedModules of the selected ids the catalog holds; an id the catalog
\* does not hold adds nothing, so dropping it from the selection gives the
\* same set.
C2_UnionOfRecommended ==
    /\ Range(activeEngines) = Baseline \cup RecommendedBy(Range(selectedIds))
    /\ Range(activeEngines)
         = Range(ActiveEnginesOf(Some(FilterOut(selectedIds, UnknownIntent))))

C2_Witness ==
    /\ stage = "intent"
    /\ Len(selectedIds) = 3
    /\ selectedIds[1] = UnknownIntent
    /\ selectedIds[3] = "risk_audit"
    /\ "sanctions_screen" \in Range(activeEngines)

\* C3: with an empty selection activeEngines is exactly
\* [geopolitics, final_review], grouped as Macro = [geopolitics],
\* Integrity = [], Expansion = [], Execution = [final_review].
C3_EmptySelection ==
    Len(selectedIds) = 0 =>
        /\ activeEngines = <<"geopolitics", "final_review">>
        /\ enginesByPhase = [Macro |-> <<"geopolitics">>,
                             Integrity |-> <<>>,
                             Expansion |-> <<>>,
                             Execution |-> <<"final_review">>]

\* the selection emptied again by toggles, after a visit of the canvas
C3_Witness ==
    /\ stage = "intent"
    /\ params.selectedIntents = Some(<<>>)
    /\ params.problemStatement # ""
    /\ Len(activeEngines) = 2

\* C4: a step that only adds ids to the selection removes no module from
\* activeEngines; in every state, the modules of each smaller selection are
\* among the active ones.
C4_Monotone ==
    [][ Range(OrEmpty(params.selectedIntents)) \subseteq Range(OrEmpty(params'.selectedIntents))
        => Range(activeEngines) \subseteq Range(activeEngines') ]_vars

C4_Witness ==
    /\ stage = "intent"
    /\ CatalogIds \subseteq Range(selectedIds)
    /\ {"rroi", "symbiotic_matchmaking", "governance_audit"} \subseteq Range(activeEngines)

Orderings(S) == {q \in SeqsUpTo(S, Cardinality(S)) : Range(q) = S}

\* C7: the memos are those of the current selection, and every list with the
\* same members, in whatever order the toggles could have left them, gives
\* the same set of active modules and the same members of each phase group.
C7_HistoryIndependent ==
    /\ activeEngines = ActiveEnginesOf(params.selectedIntents)
    /\ enginesByPhase = EnginesByPhaseOf(activeEngines)
    /\ \A q \in Orderings(Range(selectedIds)) :
          LET engines == ActiveEnginesOf(Some(q))
              groups == EnginesByPhaseOf(engines)
          IN /\ Range(engines) = Range(activeEngines)
             /\ DOMAIN groups = DOMAIN enginesByPhase
             /\ \A ph \in DOMAIN groups :
                   Range(groups[ph]) = Range(enginesByPhase[ph])

\* a selection whose order is the reverse of the catalog's
C7_Witness ==
    /\ stage = "intent"
    /\ selectedIds = <<"risk_audit", "partnership", "market_entry">>
    /\ Len(activeEngines) = 8

\* the walk the resolver makes: the baseline, then the recommendedModules of
\* each selected catalog intent, in list order
RECURSIVE Walk(_)
Walk(ids) ==
    IF Len(ids) = 0 THEN <<>>
    ELSE (IF ids[1] \in CatalogIds
          THEN (CHOOSE it \in Range(STRATEGIC_INTENTS) : it.id = ids[1]).recommendedModules
          ELSE <<>>) \o Walk(Tail(ids))

FirstIndex(s, x) == CHOOSE i \in 1..Len(s) : s[i] = x /\ \A j \in 1..(i - 1) : s[j] # x

\* C8: activeEngines holds no module twice, and its order is that of the
\* first occurrences in the walk geopolitics, final_review, then the
\* recommendedModules of the selected intents in list order.
C8_NoDuplicatesFirstSeen ==
    LET walk == <<"geopolitics", "final_review">> \o Walk(selectedIds)
    IN /\ NoDuplicates(activeEngines)
       /\ Range(activeEngines) = Range(walk)
       /\ activeEngines[1] = "geopolitics"
       /\ activeEngines[2] = "final_review"
       /\ \A a, b \in 1..Len(activeEngines) :
             a < b => FirstIndex(walk, activeEngines[a]) < FirstIndex(walk, activeEngines[b])

\* two selected intents share a module and one recommends a baseline module
C8_Witness ==
    /\ stage = "intent"
    /\ selectedIds = <<"partnership", "risk_audit", "market_entry">>
    /\ activeEngines = <<"geopolitics", "final_review", "symbiotic_matchmaking",
                         "due_diligence", "negotiation_advantage", "governance_audit",
                         "rroi", "sanctions_screen">>

----------------------------------------------------------------------------
(* Request router: properties (checked under ChatSpec) *)

\* text holds key at some position, each letter in either case
ContainsAnyCase(text, key) ==
    \E i \in 1..(Len(text) - Len(key) + 1) :
        \A k \in 1..Len(key) :
            \/ Ch(text, i + k - 1) = Ch(key, k)
            \/ \E u \in 1..Len(LowerChars) :
                 /\ Ch(LowerChars, u) = Ch(key, k)
                 /\ Ch(UpperChars, u) = Ch(text, i + k - 1)

\* the documented priority: scout keywords, then negotiate, then the default
DocumentedAgent(text) ==
    IF ContainsAnyCase(text, "news") \/ ContainsAnyCase(text, "search") THEN "scout"
    ELSE IF ContainsAnyCase(text, "negotiate") THEN "diplomat"
         ELSE "strategist"

\* a step of handleSendMessage that accepts the input text
Accepted == Len(inflight') = Len(inflight) + 1

\* C9: every accepted submission sets activeAgent to exactly one of the three
\* tags: scout if the text holds "news" or "search" in any letter case,
\* otherwise diplomat if it holds "negotiate", otherwise strategist; a blank
\* text is not accepted.
C9_ClassificationPriority ==
    [][ Accepted =>
          /\ Trim(inputText) # ""
          /\ activeAgent'.defined
          /\ activeAgent'.val \in AgentTypes
          /\ activeAgent'.val = DocumentedAgent(inputText)
          /\ inflight'[Len(inflight')].agent = activeAgent'.val ]_vars

\* a text with a scout keyword and "negotiate" went out as scout
C9_Witness ==
    /\ Len(inflight) > 0
    /\ inflight[Len(inflight)].text = "Negotiate, then check the News"
    /\ inflight[Len(inflight)].live
    /\ activeAgent = Some("scout")
    /\ agentStatus = "Scouring global databases..."

\* C10: when the responder resolves for a request of the mounted panel, the
\* ai message appended carries the agent the router classified for that
\* request, which is the agent the processing status showed until then.
C10_ReplyCarriesClassifiedAgent ==
    [][ \A i \in 1..Len(inflight) :
          (inflight[i].live /\ \E response \in Responses : Resolve(i, response)) =>
              /\ activeAgent = Some(inflight[i].agent)
              /\ messages'[Len(messages')].agent = Some(inflight[i].agent) ]_vars

----------------------------------------------------------------------------
(* Inquire panel: properties (checked under ChatSpec and ChatFairSpec) *)

Greeting ==
    [sender |-> "ai",
     text |-> "Nexus Intelligence System Online. Active Agents: Scout, Strategist, Diplomat. Awaiting directives.",
     agent |-> None,
     sources |-> None]

Fallback ==
    [sender |-> "ai", text |-> "System overload. Re-routing...",
     agent |-> None, sources |-> None]

\* requests the mounted panel awaits
LiveCount == Cardinality({i \in 1..Len(inflight) : inflight[i].live})

CountSender(who) == Cardinality({k \in 1..Len(messages) : messages[k].sender = who})

Idle == activeAgent = None /\ agentStatus = ""

IsBlank(text) == \A k \in 1..Len(text) : Ch(text, k) = " "

IsPrefix(s, t) == Len(s) <= Len(t) /\ SubSeq(t, 1, Len(s)) = s

\* a request of the mounted panel ends in this step
RequestEnds == mounted /\ mounted' /\ LiveCount' < LiveCount

\* C11: when the responder rejects for a request of the mounted panel, the
\* step appends the fallback message "System overload. Re-routing...", with
\* no agent and no sources, and nothing else.
C11_RejectYieldsFallback ==
    [][ \A i \in 1..Len(inflight) :
          (inflight[i].live /\ Reject(i)) => messages' = Append(messages, Fallback) ]_vars

C11_Witness ==
    /\ mounted
    /\ Len(messages) = 3
    /\ messages[2].sender = "user"
    /\ messages[3] = Fallback
    /\ Len(inflight) = 0

\* C12: the step that ends a request, by resolve or by reject, leaves
\* activeAgent null and agentStatus empty; with no request in flight the
\* status is cleared; and when the responder eventually answers, requests in
\* flight lead to no request in flight and a cleared status.
C12_StatusCleared ==
    /\ [][ RequestEnds => (activeAgent' = None /\ agentStatus' = "") ]_vars
    /\ []((mounted /\ LiveCount = 0) => Idle)
    /\ ((LiveCount > 0) ~> (LiveCount = 0 /\ Idle))

C12_Witness ==
    /\ mounted
    /\ submitted = 2
    /\ Len(messages) = 5
    /\ messages[4].text = "Briefing ready."
    /\ messages[5] = Fallback
    /\ LiveCount = 0
    /\ Idle

\* C13: while the input text is empty or only spaces, no step starts a
\* request or appends a user message, and a call of handleSendMessage changes
\* nothing: transcript, inputText, activeAgent and agentStatus stay as they
\* are.
C13_BlankRejected ==
    [][ (mounted /\ IsBlank(inputText)) =>
          /\ Len(inflight') <= Len(inflight)
          /\ submitted' = submitted
          /\ ~(Len(messages') > Len(messages)
                /\ messages'[Len(messages')].sender = "user")
          /\ (handleSendMessage =>
                UNCHANGED <<messages, inputText, activeAgent, agentStatus, inflight>>)
      ]_vars

\* a blank text in the input while a request is awaited and a further
\* submission would still be taken
C13_Witness ==
    /\ mounted
    /\ inputText = "  "
    /\ submitted < MaxSubmissions
    /\ LiveCount = 1
    /\ activeAgent = Some("diplomat")

\* C14: while the panel stays mounted the transcript starts with the greeting
\* and every step leaves the old transcript as a prefix of the new one.
C14_AppendOnly ==
    /\ [][ (mounted /\ mounted') => IsPrefix(messages, messages') ]_vars
    /\ [](mounted => (Len(messages) >= 1 /\ messages[1] = Greeting))

\* two submissions overlapped and both replies are in
C14_Witness ==
    /\ mounted
    /\ Len(messages) = 5
    /\ messages[2].sender = "user"
    /\ messages[3].sender = "user"
    /\ messages[4].sender = "ai"
    /\ messages[5].sender = "ai"

\* C15: a step starts a call of the responder exactly when it accepts a
\* submission, one call per submission, with the status set; a step that
\* appends an ai reply ends exactly one awaited request, starts none and
\* leaves the status cleared.
C15_OneCallPerSubmission ==
    [][ /\ (Len(inflight') > Len(inflight) =>
               /\ Len(inflight') = Len(inflight) + 1
               /\ submitted' = submitted + 1
               /\ Idle' = FALSE)
        /\ (submitted' # submitted =>
               /\ submitted' = submitted + 1
               /\ Len(inflight') = Len(inflight) + 1)
        /\ ((mounted /\ Len(messages') > Len(messages)
                /\ messages'[Len(messages')].sender = "ai") =>
               /\ Len(inflight') = Len(inflight) - 1
               /\ submitted' = submitted
               /\ Idle') ]_vars

\* one request degraded, then a second one delivered, the panel idle again
C15_Witness ==
    /\ mounted
    /\ submitted = 2
    /\ Len(messages) = 5
    /\ messages[3] = Fallback
    /\ messages[4].sender = "user"
    /\ messages[5].agent = Some("scout")
    /\ Len(inflight) = 0
    /\ Idle

\* C16: at most one request of the mounted panel is awaited at any time.
C16_AtMostOneInFlight == LiveCount <= 1

\* C17: while the panel is unmounted its state is the discarded one, and a
\* completion that arrives then, or after a new panel was mounted, changes
\* neither transcript nor status nor any other state of the session.
C17_LateCompletionDropped ==
    /\ [](~mounted => (messages = <<>> /\ inputText = "" /\ Idle))
    /\ [][ (~mounted /\ ~mounted') =>
              UNCHANGED <<messages, inputText, activeAgent, agentStatus, stage, params>>
        ]_vars
    /\ [][ dropped' # dropped =>
              UNCHANGED <<messages, inputText, activeAgent, agentStatus, mounted,
                          stage, params, submitted>> ]_vars

\* a request completed after its panel was unmounted
C17_Witness ==
    /\ ~mounted
    /\ stage = "intent"
    /\ dropped = 1
    /\ Len(inflight) = 0
    /\ messages = <<>>

\* C19: the processing indicator is shown exactly while at least one request
\* of the mounted panel is awaited.
C19_IndicatorIffInFlight == mounted => (activeAgent.defined <=> LiveCount > 0)

\* C20: an accepted submission appends one user message with the submitted
\* text; the ai replies after the greeting and the awaited requests together
\* are as many as the user messages; and when the responder eventually
\* answers, no request stays awaited.
C20_EveryRequestAnswered ==
    /\ [][ Len(inflight') > Len(inflight) =>
              messages' = Append(messages, [sender |-> "user", text |-> inputText,
                                            agent |-> None, sources |-> None]) ]_vars
    /\ [](mounted => CountSender("ai") - 1 + LiveCount = CountSender("user"))
    /\ [](mounted => CountSender("ai") - 1 <= CountSender("user"))
    /\ ((LiveCount > 0) ~> (LiveCount = 0))

\* one request answered, the next one still awaited
C20_Witness ==
    /\ mounted
    /\ CountSender("user") = 2
    /\ CountSender("ai") = 2
    /\ LiveCount = 1
    /\ messages[Len(messages)].sender = "user"

----------------------------------------------------------------------------
(* Refinement of the initial thought: properties (checked under RefineSpec) *)

\* C18: when generateFastSuggestion rejects, the step leaves params, with
\* problemStatement, as they are, calls no onParamsChange, and ends with
\* isAnalyzingThought false; the flag is never left set without a request.
C18_RefineFailureCaught ==
    /\ [][ \A i \in 1..Len(refining) :
              RefineReject(i) =>
                  /\ params' = params
                  /\ UNCHANGED <<stage, activeEngines, enginesByPhase>>
                  /\ isAnalyzingThought' = FALSE ]_vars
    /\ [](Len(refining) = 0 => ~isAnalyzingThought)

\* the one refinement started has failed: no problemStatement, flag reset
C18_Witness ==
    /\ refinements = 1
    /\ Len(refining) = 0
    /\ ~isAnalyzingThought
    /\ params.initialThought = "Enter ASEAN"
    /\ params.problemStatement = ""

----------------------------------------------------------------------------
(* Further properties of the panel and the wizard *)

\* C21: a reply is appended for a request only when no request submitted
\* earlier to the same panel is still awaited, so the replies come in the
\* order of the submissions. (Requests with the same text and agent cannot be
\* told apart and are not counted as out of order.)
C21_RepliesInSubmissionOrder ==
    [][ \A i \in 1..Len(inflight) :
          (inflight[i].live
             /\ (Reject(i) \/ \E response \in Responses : Resolve(i, response))) =>
              \A j \in 1..(i - 1) : inflight[j].live => inflight[j] = inflight[i] ]_vars

\* C22: the stage starts at identity and moves only identity -> intent (all
\* of organizationType, userCountry and userName non-empty), intent ->
\* identity, intent -> canvas (selectedIntents non-empty) and canvas -> intent.
C22_StageTransitions ==
    /\ [][ stage' # stage =>
              \/ /\ stage = "identity" /\ stage' = "intent"
                 /\ params.organizationType # ""
                 /\ params.userCountry # ""
                 /\ params.userName # ""
              \/ stage = "intent" /\ stage' = "identity"
              \/ /\ stage = "intent" /\ stage' = "canvas"
                 /\ Len(OrEmpty(params.selectedIntents)) > 0
                 /\ Len(OrEmpty(params'.selectedIntents)) > 0
              \/ stage = "canvas" /\ stage' = "intent" ]_vars
    /\ [](stage \in {"identity", "intent", "canvas"})
    /\ [](stage = "canvas" => Len(OrEmpty(params.selectedIntents)) > 0)

\* back on identity after a visit of the canvas, the name cleared again
C22_Witness ==
    /\ stage = "identity"
    /\ params.problemStatement # ""
    /\ params.userName = ""
    /\ params.organizationType # ""

\* C23: a step that changes selectedIntents flips the membership of one
\* catalog id and keeps the other ids in their order; a list without
\* duplicates stays without duplicates; and toggling any id twice gives back
\* the same members.
C23_ToggleFlipsOne ==
    /\ [][ params'.selectedIntents # params.selectedIntents =>
              LET old == OrEmpty(params.selectedIntents)
                  new == OrEmpty(params'.selectedIntents)
              IN /\ params'.selectedIntents.defined
                 /\ \E id \in CatalogIds :
                       /\ (id \in Range(new)) # (id \in Range(old))
                       /\ Range(new) \ {id} = Range(old) \ {id}
                       /\ FilterOut(new, id) = FilterOut(old, id)
                 /\ (NoDuplicates(old) => NoDuplicates(new)) ]_vars
    /\ [](\A id \in CatalogIds :
            Range(NewIntents(NewIntents(selectedIds, id), id)) = Range(selectedIds))

\* an id toggled off from between two others
C23_Witness ==
    /\ stage = "intent"
    /\ selectedIds = <<"partnership", "market_entry">>
    /\ params.selectedIntent = Some("partnership")
    /\ params.problemStatement = "Strategic Mission: Partnership + Risk Audit + Market Entry"

\* C24: a step that changes selectedIntents leaves selectedIntent equal to
\* the first element of the new list, or undefined when the list is empty;
\* a defined selectedIntent is a member of selectedIntents.
C24_PrimaryIsFirst ==
    /\ [][ params'.selectedIntents # params.selectedIntents =>
              LET new == OrEmpty(params'.selectedIntents)
              IN /\ (Len(new) > 0 => params'.selectedIntent = Some(new[1]))
                 /\ (Len(new) = 0 <=> params'.selectedIntent = None) ]_vars
    /\ [](params.selectedIntent.defined =>
            params.selectedIntent.val \in Range(selectedIds))

\* the first selected id toggled off, the next one is the primary
C24_Witness ==
    /\ stage = "intent"
    /\ selectedIds = <<"risk_audit", "partnership">>
    /\ params.selectedIntent = Some("risk_audit")
    /\ params.problemStatement = "Strategic Mission: Market Entry + Risk Audit"

\* C25: at most one refinement is pending; one starts only on a non-empty
\* initialThought while none is running; isAnalyzingThought is true exactly
\* while a call is pending; and once the service answers the flag is false
\* again.
C25_OneRefinementAtATime ==
    /\ [](Len(refining) <= 1)
    /\ [](isAnalyzingThought <=> Len(refining) > 0)
    /\ [][ Len(refining') > Len(refining) =>
              /\ params.initialThought # ""
              /\ ~isAnalyzingThought
              /\ Len(refining) = 0 ]_vars
    /\ [][ (params.initialThought = "" \/ isAnalyzingThought) =>
              Len(refining') <= Len(refining) ]_vars
    /\ (isAnalyzingThought ~> ~isAnalyzingThought)

\* a second refinement running after the first one ended
C25_Witness ==
    /\ refinements = 2
    /\ isAnalyzingThought
    /\ Len(refining) = 1

\* C26: when generateFastSuggestion resolves, the params emitted are those
\* held just before, with problemStatement replaced and nothing else changed.
C26_OnlyProblemStatementChanges ==
    [][ \A i \in 1..Len(refining), refined \in RefinedTexts :
          RefineResolve(i, refined) =>
              params' = [params EXCEPT !.problemStatement = refined] ]_vars

====
